---- MODULE Spec2Model ----
(***************************************************************************)
(* A model of the HTTP server of src/src/main.rs: the accept loop raced    *)
(* against ctrl-c (main, main_loop), and the per-connection task           *)
(* (handle_connection) with its frame reader, request parser, router,      *)
(* response writer and the two file handlers.                              *)
(*                                                                         *)
(* Text is modelled as Rust holds it: a String is a sequence of bytes.     *)
(* A byte is written as a one-character string ("G", " ", "\r"); the       *)
(* non-ASCII bytes used are "xC3" and "xA9" (together U+00E9) and "xFF"    *)
(* (never valid in UTF-8).  len() is therefore Len.                        *)
(*                                                                         *)
(* Four specifications: Spec (the server with its signal), SpecServe (the  *)
(* server over one directory, without the signal), SpecConn (one accepted  *)
(* connection with any request) and SpecRead (read_to_string alone).       *)
(***************************************************************************)
EXTENDS Naturals, Sequences, FiniteSets, TLC

VARIABLES
    dir,        \* Arc<Option<String>>: the base directory, "None" or a byte string
    fs,         \* the file system: absolute path -> "absent" | "dir" | <<bytes>>
    conns,      \* per connection: the position and locals of its handle_connection task
    backlog,    \* connections the kernel has queued on the listener, oldest first
    ctrl_c,     \* whether the ctrl-c signal has fired
    main        \* the main task: "running" | "shutdown" | "accept_error"

vars == <<dir, fs, conns, backlog, ctrl_c, main>>

----------------------------------------------------------------------------
(* Bounds of the model. *)

\* The number of connections the clients open during one run of the server.
MaxConns == 2

\* A short write delivers 1..MaxShortWrite bytes of the buffer it was given.
MaxShortWrite == 1

\* The number of chunks a stream of the read loop delivers.
MaxChunks == 3

----------------------------------------------------------------------------
(* Byte strings. *)

SP == " "
CR == "\r"
LF == "\n"
CRLF == <<CR, LF>>

\* char::is_whitespace, on the bytes of the model (U+0009..U+000D and U+0020).
WhiteSpace == {" ", "\t", "\n", "\f", "\r"}

LowerCase == <<"a","b","c","d","e","f","g","h","i","j","k","l","m",
               "n","o","p","q","r","s","t","u","v","w","x","y","z">>
UpperCase == <<"A","B","C","D","E","F","G","H","I","J","K","L","M",
               "N","O","P","Q","R","S","T","U","V","W","X","Y","Z">>

\* char::to_uppercase on one byte.
to_upper(b) ==
    IF \E i \in 1..26 : LowerCase[i] = b
    THEN UpperCase[CHOOSE i \in 1..26 : LowerCase[i] = b]
    ELSE b

\* str::to_uppercase
to_uppercase(s) == [i \in 1..Len(s) |-> to_upper(s[i])]

\* str::find(ch): the first index (1-based) of ch, 0 for None.
find(s, ch) ==
    IF \E i \in 1..Len(s) : s[i] = ch
    THEN CHOOSE i \in 1..Len(s) : s[i] = ch /\ \A j \in 1..(i-1) : s[j] # ch
    ELSE 0

\* str::rfind(ch): the last index (1-based) of ch, 0 for None.
rfind(s, ch) ==
    IF \E i \in 1..Len(s) : s[i] = ch
    THEN CHOOSE i \in 1..Len(s) : s[i] = ch /\ \A j \in (i+1)..Len(s) : s[j] # ch
    ELSE 0

\* str::trim_start
RECURSIVE trim_start(_)
trim_start(s) ==
    IF s # <<>> /\ Head(s) \in WhiteSpace THEN trim_start(Tail(s)) ELSE s

\* str::trim_end
RECURSIVE trim_end(_)
trim_end(s) ==
    IF s # <<>> /\ s[Len(s)] \in WhiteSpace
    THEN trim_end(SubSeq(s, 1, Len(s) - 1))
    ELSE s

\* str::trim
trim(s) == trim_end(trim_start(s))

\* str::starts_with
starts_with(s, p) == Len(s) >= Len(p) /\ SubSeq(s, 1, Len(p)) = p

\* str::strip_prefix(p).unwrap(), used only where starts_with(s, p) holds.
strip_prefix(s, p) == SubSeq(s, Len(p) + 1, Len(s))

\* str::lines: split after every "\n"; a line's final "\n", and a "\r" just
\* before it, are dropped; no line is produced for the empty rest after the
\* last "\n".
RECURSIVE lines(_)
lines(s) ==
    IF s = <<>> THEN <<>>
    ELSE LET i == find(s, LF) IN
         IF i = 0 THEN <<s>>
         ELSE LET l == SubSeq(s, 1, i - 1)
                  line == IF l # <<>> /\ l[Len(l)] = CR
                          THEN SubSeq(l, 1, Len(l) - 1) ELSE l
              IN  <<line>> \o lines(SubSeq(s, i + 1, Len(s)))

\* format!("{n}") of an unsigned integer: its decimal digits.
Digits == <<"0","1","2","3","4","5","6","7","8","9">>
RECURSIVE fmt_usize(_)
fmt_usize(n) ==
    IF n < 10 THEN <<Digits[n + 1]>>
    ELSE fmt_usize(n \div 10) \o <<Digits[(n % 10) + 1]>>

\* String::from_utf8: whether the bytes are valid UTF-8.  ASCII bytes stand
\* alone, the lead byte xC3 needs the continuation byte xA9 after it, and a
\* lone continuation byte or xFF is invalid.
valid_utf8(s) ==
    \A i \in 1..Len(s) :
        /\ s[i] # "xFF"
        /\ s[i] = "xC3" => (i < Len(s) /\ s[i + 1] = "xA9")
        /\ s[i] = "xA9" => (i > 1 /\ s[i - 1] = "xC3")

----------------------------------------------------------------------------
(* Response and its writer. *)

\* impl From<HttpStatusCode> for usize
usize_from(sc) ==
    CASE sc = "Ok" -> 200
      [] sc = "Created" -> 201
      [] sc = "BadRequest" -> 400
      [] sc = "NotFound" -> 404
      [] sc = "InternalServerError" -> 500

\* impl Display for HttpStatusCode
status_display(sc) ==
    CASE sc = "Ok" -> <<"O","K">>
      [] sc = "Created" -> <<"C","r","e","a","t","e","d">>
      [] sc = "BadRequest" -> <<"B","a","d"," ","R","e","q","u","e","s","t">>
      [] sc = "NotFound" -> <<"N","o","t"," ","F","o","u","n","d">>
      [] sc = "InternalServerError" ->
            <<"I","n","t","e","r","n","a","l"," ","S","e","r","v","e","r",
              " ","E","r","r","o","r">>

\* Response::new
Response_new(status_code, headers, body) ==
    [status_code |-> status_code, headers |-> headers, body |-> body]

\* Response::new_without_body
Response_new_without_body(status_code, headers) ==
    [status_code |-> status_code, headers |-> headers, body |-> <<>>]

\* Response::from giving every bodyless response a Content-Length: 0 header.
Response_from_with_length(sc) ==
    Response_new(sc, << <<<<"C","o","n","t","e","n","t","-","L","e","n","g","t","h">>,
                          <<"0">>>> >>, <<>>)

\* impl From<HttpStatusCode> for Response
Response_from(sc) == Response_new(sc, <<>>, <<>>)

RECURSIVE write_headers(_)
write_headers(hs) ==
    IF hs = <<>> THEN <<>>
    ELSE Head(hs)[1] \o <<":", " ">> \o Head(hs)[2] \o CRLF \o write_headers(Tail(hs))

\* The buffer Response::write_to builds and hands to one write call.
write_to_buf(r) ==
    <<"H","T","T","P","/","1",".","1"," ">> \o fmt_usize(usize_from(r.status_code))
        \o <<SP>> \o status_display(r.status_code) \o CRLF
        \o write_headers(r.headers)
        \o CRLF
        \o r.body

\* What one AsyncWriteExt::write of buf can do: Ok(n) with the first n bytes
\* taken (all of them, or a short write), or Err with nothing taken (n = 0).
\* write_to does not call write again after a short write.
WriteResults(buf) ==
    {[ok |-> TRUE, n |-> Len(buf)]}
      \cup {[ok |-> TRUE, n |-> k] : k \in {j \in 1..MaxShortWrite : j < Len(buf)}}
      \cup {[ok |-> FALSE, n |-> 0]}

Content_Type == <<"C","o","n","t","e","n","t","-","T","y","p","e">>
Content_Length == <<"C","o","n","t","e","n","t","-","L","e","n","g","t","h">>
text_plain == <<"t","e","x","t","/","p","l","a","i","n">>
octet_stream == <<"a","p","p","l","i","c","a","t","i","o","n","/",
                  "o","c","t","e","t","-","s","t","r","e","a","m">>

----------------------------------------------------------------------------
(* Request parser. *)

HttpMethod == {"GET", "POST", "PUT", "DELETE", "PATCH", "HEAD", "OPTIONS",
               "TRACE", "CONNECT"}

\* HttpMethod::try_from without to_uppercase: the match on the token as sent.
HttpMethod_try_from_exact(method) ==
    LET up == method IN
    CASE up = <<"G","E","T">> -> [ok |-> TRUE, method |-> "GET"]
      [] up = <<"P","O","S","T">> -> [ok |-> TRUE, method |-> "POST"]
      [] up = <<"P","U","T">> -> [ok |-> TRUE, method |-> "PUT"]
      [] up = <<"D","E","L","E","T","E">> -> [ok |-> TRUE, method |-> "DELETE"]
      [] up = <<"P","A","T","C","H">> -> [ok |-> TRUE, method |-> "PATCH"]
      [] up = <<"H","E","A","D">> -> [ok |-> TRUE, method |-> "HEAD"]
      [] up = <<"O","P","T","I","O","N","S">> -> [ok |-> TRUE, method |-> "OPTIONS"]
      [] up = <<"T","R","A","C","E">> -> [ok |-> TRUE, method |-> "TRACE"]
      [] up = <<"C","O","N","N","E","C","T">> -> [ok |-> TRUE, method |-> "CONNECT"]
      [] OTHER -> [ok |-> FALSE, method |-> "Err"]

\* impl TryFrom<&str> for HttpMethod: [ok, method].
HttpMethod_try_from(method) ==
    LET up == to_uppercase(method) IN
    CASE up = <<"G","E","T">> -> [ok |-> TRUE, method |-> "GET"]
      [] up = <<"P","O","S","T">> -> [ok |-> TRUE, method |-> "POST"]
      [] up = <<"P","U","T">> -> [ok |-> TRUE, method |-> "PUT"]
      [] up = <<"D","E","L","E","T","E">> -> [ok |-> TRUE, method |-> "DELETE"]
      [] up = <<"P","A","T","C","H">> -> [ok |-> TRUE, method |-> "PATCH"]
      [] up = <<"H","E","A","D">> -> [ok |-> TRUE, method |-> "HEAD"]
      [] up = <<"O","P","T","I","O","N","S">> -> [ok |-> TRUE, method |-> "OPTIONS"]
      [] up = <<"T","R","A","C","E">> -> [ok |-> TRUE, method |-> "TRACE"]
      [] up = <<"C","O","N","N","E","C","T">> -> [ok |-> TRUE, method |-> "CONNECT"]
      [] OTHER -> [ok |-> FALSE, method |-> "Err"]

\* split_header without trim_start on the value.
split_header_untrimmed(header) ==
    LET i == find(header, ":") IN
    IF i = 0 THEN [some |-> FALSE, key |-> <<>>, value |-> <<>>]
    ELSE [some |-> TRUE,
          key |-> SubSeq(header, 1, i - 1),
          value |-> SubSeq(header, i + 1, Len(header))]

\* split_header: [some, key, value]; None when the line holds no colon.
split_header(header) ==
    LET i == find(header, ":") IN
    IF i = 0 THEN [some |-> FALSE, key |-> <<>>, value |-> <<>>]
    ELSE [some |-> TRUE,
          key |-> SubSeq(header, 1, i - 1),
          value |-> trim_start(SubSeq(header, i + 1, Len(header)))]

\* header_line without the test idx1 != idx2: one space is enough.
header_line_one_space(buf) ==
    LET ls == lines(buf)
        none == [some |-> FALSE, method |-> <<>>, path |-> <<>>, version |-> <<>>]
    IN  IF ls = <<>> THEN none
        ELSE LET line == ls[1]
                 idx1 == find(line, SP)
                 idx2 == rfind(line, SP)
             IN  IF idx1 # 0
                 THEN [some |-> TRUE,
                       method |-> trim(SubSeq(line, 1, idx1 - 1)),
                       path |-> trim(SubSeq(line, idx1 + 1, idx2 - 1)),
                       version |-> trim(SubSeq(line, idx2 + 1, Len(line)))]
                 ELSE none

\* The request line of handle_connection: the first line cut at its first and
\* last space, each part trimmed; None without two distinct spaces.
header_line(buf) ==
    LET ls == lines(buf)
        none == [some |-> FALSE, method |-> <<>>, path |-> <<>>, version |-> <<>>]
    IN  IF ls = <<>> THEN none
        ELSE LET line == ls[1]
                 idx1 == find(line, SP)
                 idx2 == rfind(line, SP)
             IN  IF idx1 # 0 /\ idx1 # idx2
                 THEN [some |-> TRUE,
                       method |-> trim(SubSeq(line, 1, idx1 - 1)),
                       path |-> trim(SubSeq(line, idx1 + 1, idx2 - 1)),
                       version |-> trim(SubSeq(line, idx2 + 1, Len(line)))]
                 ELSE none

\* The number of leading non-empty lines of ls (take_while).
RECURSIVE take_while_nonempty(_)
take_while_nonempty(ls) ==
    IF ls = <<>> \/ Head(ls) = <<>> THEN 0 ELSE 1 + take_while_nonempty(Tail(ls))

RECURSIVE filter_map_split_header(_)
filter_map_split_header(ls) ==
    IF ls = <<>> THEN <<>>
    ELSE LET h == split_header(Head(ls)) IN
         (IF h.some THEN <<<<h.key, h.value>>>> ELSE <<>>)
            \o filter_map_split_header(Tail(ls))

\* parse_headers had the pairs been inserted into a map by name: of the
\* occurrences of a name the last one is kept.
parse_headers_last_wins(buf) ==
    LET rest == Tail(lines(buf))
        k == take_while_nonempty(rest)
        hs == filter_map_split_header(SubSeq(rest, 1, k))
        keep == {i \in 1..Len(hs) : \A j \in (i + 1)..Len(hs) : hs[j][1] # hs[i][1]}
        n == Cardinality(keep)
        f == CHOOSE g \in [1..n -> keep] : \A a, b \in 1..n : a < b => g[a] < g[b]
    IN  [i \in 1..n |-> hs[f[i]]]

\* The headers of handle_connection: the lines after the first up to the first
\* empty line, each split by split_header, those without a colon left out.
parse_headers(buf) ==
    LET rest == Tail(lines(buf))
        k == take_while_nonempty(rest)
    IN  filter_map_split_header(SubSeq(rest, 1, k))

RECURSIVE fold_lines(_)
fold_lines(ls) ==
    IF ls = <<>> THEN <<>> ELSE Head(ls) \o <<LF>> \o fold_lines(Tail(ls))

\* The body of handle_connection: the lines after the first empty line (which
\* take_while consumed), each followed by "\n", the last "\n" removed.
parse_body(buf) ==
    LET rest == Tail(lines(buf))
        k == take_while_nonempty(rest)
        body == fold_lines(SubSeq(rest, k + 2, Len(rest)))
    IN  IF body # <<>> THEN SubSeq(body, 1, Len(body) - 1) ELSE body

----------------------------------------------------------------------------
(* Router: the match on path of handle_connection. *)

User_Agent == <<"U","s","e","r","-","A","g","e","n","t">>
path_root == <<"/">>
path_user_agent == <<"/","u","s","e","r","-","a","g","e","n","t">>
\* The echo prefix without its final "/", so that "/echo" is an echo path.
prefix_echo_no_slash == <<"/","e","c","h","o">>
prefix_echo == <<"/","e","c","h","o","/">>
prefix_files == <<"/","f","i","l","e","s","/">>

\* headers.iter().find(|(key, _)| *key == "User-Agent"): the index of the first
\* header whose key is exactly User-Agent, 0 for None.
find_user_agent(headers) ==
    IF \E i \in 1..Len(headers) : headers[i][1] = User_Agent
    THEN CHOOSE i \in 1..Len(headers) :
            /\ headers[i][1] = User_Agent
            /\ \A j \in 1..(i-1) : headers[j][1] # User_Agent
    ELSE 0

\* A text/plain response of status 200 carrying body.
text_response(body) ==
    Response_new("Ok",
                 << <<Content_Type, text_plain>>,
                    <<Content_Length, fmt_usize(Len(body))>> >>,
                 body)

\* The arm for "/user-agent".
route_user_agent(headers) ==
    LET i == find_user_agent(headers) IN
    IF i # 0 THEN text_response(headers[i][2]) ELSE Response_from("NotFound")

\* route_echo with the prefix stripped one byte short: the body keeps the "/".
route_echo_keeps_slash(path) ==
    text_response(strip_prefix(path, <<"/","e","c","h","o">>))

\* The arm for a path starting with "/echo/".
route_echo(path) == text_response(strip_prefix(path, prefix_echo))

\* route_files without the match on dir: the handlers run with an empty base.
route_files_ungated(method, d) ==
    IF method = "GET" THEN "send_file"
    ELSE IF method = "POST" THEN "save_file"
    ELSE "none"

\* The arm for a path starting with "/files/": what the task does next.
route_files(method, d) ==
    IF d.some
    THEN IF method = "GET" THEN "send_file"
         ELSE IF method = "POST" THEN "save_file"
         ELSE "none"
    ELSE "respond"

\* The match on path: [kind, resp].  kind is "respond" (write resp and end),
\* "send_file", "save_file", or "none" (end without writing anything).
route(method, path, headers, d) ==
    LET respond(r) == [kind |-> "respond", resp |-> r] IN
    IF path = path_root THEN respond(Response_from("Ok"))
    ELSE IF path = path_user_agent THEN respond(route_user_agent(headers))
    ELSE IF starts_with(path, prefix_echo) THEN respond(route_echo(path))
    ELSE IF starts_with(path, prefix_files)
         THEN [kind |-> route_files(method, d), resp |-> Response_from("NotFound")]
    ELSE respond(Response_from("NotFound"))

----------------------------------------------------------------------------
(* Files. *)

\* main_loop's normalisation of the --directory argument.
normalize_dir(arg) ==
    IF arg # <<>> /\ arg[Len(arg)] = "/" THEN arg ELSE arg \o <<"/">>

\* format!("{dir}{file_name}") of send_file and save_file.
absolute_path(path, d) == d.val \o strip_prefix(path, prefix_files)

Absent == [kind |-> "absent", data |-> <<>>, size |-> 0]

\* The file at an absolute path.
file_at(p) == IF p \in DOMAIN fs THEN fs[p] ELSE Absent

\* File::open: read-only; succeeds on a regular file and on a directory.
File_open(p) == file_at(p).kind # "absent"

\* file.metadata().len()
metadata_len(p) == file_at(p).size

----------------------------------------------------------------------------
(* The requests the clients send. *)

RECURSIVE join_crlf(_)
join_crlf(ls) == IF ls = <<>> THEN <<>> ELSE Head(ls) \o CRLF \o join_crlf(Tail(ls))

\* The bytes of a request: request line, header lines, empty line, body.
request_text(m, p, v, hs, b) ==
    m \o <<SP>> \o p \o <<SP>> \o v \o CRLF \o join_crlf(hs) \o CRLF \o b

HTTP_1_1 == <<"H","T","T","P","/","1",".","1">>
BaseDir == <<"/","d","/">>
FileF == BaseDir \o <<"f">>

MethodTokens ==
    { <<"G","E","T">>, <<"P","O","S","T">>, <<"P","U","T">>, <<"g","e","t">>,
      <<"H","E","A","D">> }

RequestPaths ==
    { path_root, path_user_agent,
      prefix_echo, prefix_echo \o <<"a","b">>, prefix_echo \o <<"a"," ","b">>,
      prefix_echo \o <<"xC3","xA9">>, prefix_echo \o <<"%","2","0">>,
      <<"/","e","c","h","o">>,
      prefix_files, prefix_files \o <<"f">>, prefix_files \o <<"g">>,
      <<"/","x">>, path_user_agent \o <<"/">> }

Versions == { HTTP_1_1, <<"H","T","T","P","/","1",".","0">> }

HeaderBlocks ==
    { <<>>,
      << User_Agent \o <<":"," ","a","/","1">> >>,
      << <<"H","o","s","t",":"," ","h">>, User_Agent \o <<":"," "," ","xC3","xA9">> >>,
      << <<"u","s","e","r","-","a","g","e","n","t",":"," ","a">> >>,
      << User_Agent \o <<":","a">>, User_Agent \o <<":"," ","b">> >>,
      << User_Agent, User_Agent \o <<" ",":"," ","a">> >> }

Bodies == { <<>>, <<"h","e","l","l","o">>, User_Agent \o <<":"," ","z">> }

\* Requests with a request line of three parts and a known method token.
WellFormed ==
    { request_text(m, p, v, hs, b) :
        m \in MethodTokens, p \in RequestPaths, v \in Versions,
        hs \in HeaderBlocks, b \in Bodies }

\* No line, no space, one space, an unknown method token, invalid UTF-8.
IllFormed ==
    { <<>>, <<"G","E","T">> \o CRLF, <<"G","E","T"," ","/">> \o CRLF \o CRLF,
      <<"F","O","O"," ","/"," ">> \o HTTP_1_1 \o CRLF \o CRLF,
      <<"G","E","T"," ","/"," ","xFF">> \o CRLF \o CRLF }

\* The other method names in lower, upper and mixed case, and tokens that
\* are no method name, on several paths.
MethodRequests ==
    { request_text(m, path_root, HTTP_1_1, <<>>, <<>>) :
        m \in { <<"d","e","l","e","t","e">>, <<"P","a","t","c","h">>,
                <<"O","P","T","I","O","N","S">>, <<"t","r","a","c","E">>,
                <<"C","o","N","N","E","C","T">>, <<"p","O","s","T">> } }
      \cup { request_text(<<"F","O","O">>, prefix_echo \o <<"a","b">>, HTTP_1_1, <<>>, <<>>),
             request_text(<<"G","E","T","X">>, prefix_files \o <<"f">>, HTTP_1_1, <<>>, <<>>),
             request_text(<<"G","E">>, path_user_agent, HTTP_1_1, <<>>, <<>>) }

\* A header section with a name three times, another name between its
\* occurrences and a line without a colon.
RepeatedHeaders ==
    << <<"A",":"," ","1">>, <<"x">>, <<"B",":"," ","2">>, <<"A",":","3">>,
       <<"A",":"," ","1">> >>

HeaderRequests ==
    { request_text(<<"G","E","T">>, path_user_agent, HTTP_1_1, RepeatedHeaders, b) :
        b \in Bodies }

Requests == WellFormed \cup IllFormed \cup MethodRequests \cup HeaderRequests

\* The requests of the server runs, where several connections are open at once.
ServerRequests ==
    { request_text(<<"P","O","S","T">>, prefix_files \o <<"f">>, HTTP_1_1, <<>>,
                   <<"h","e","l","l","o">>),
      request_text(<<"G","E","T">>, prefix_files \o <<"f">>, HTTP_1_1, <<>>, <<>>),
      request_text(<<"G","E","T">>, prefix_echo \o <<"x">>, HTTP_1_1, <<>>, <<>>),
      <<"G","E","T">> \o CRLF,
      request_text(<<"F","O","O">>, path_root, HTTP_1_1, <<>>, <<>>),
      <<"G","E","T"," ","/"," ","xFF">> \o CRLF \o CRLF }

\* const BUFFER_SIZE of read_to_string.
BUFFER_SIZE == 1024

\* What one stream.read can return: the whole buffer (1024 bytes), one byte
\* less, a single byte, a byte that is not UTF-8, nothing.
Chunks ==
    { [i \in 1..BUFFER_SIZE |-> "a"], [i \in 1..BUFFER_SIZE |-> "b"],
      [i \in 1..(BUFFER_SIZE - 1) |-> "d"], <<"c">>, <<"xFF">>, <<>> }

\* The streams of the read loop: up to MaxChunks chunks.
Streams == UNION { [1..n -> Chunks] : n \in 0..MaxChunks }

FileContents == { <<"h","i">>, <<"h","e","l","l","o">> }

regular_file(data) == [kind |-> "file", data |-> data, size |-> Len(data)]

\* The file systems a run starts from: the base directory holds f or not.
FileSystems ==
    { (BaseDir :> [kind |-> "dir", data |-> <<>>, size |-> 4096]) @@ (FileF :> st) :
        st \in {Absent} \cup {regular_file(data) : data \in FileContents} }

\* The values of Arc<Option<String>> main_loop builds from the arguments.
Directories ==
    { [some |-> FALSE, val |-> <<>>] }
      \cup { [some |-> TRUE, val |-> normalize_dir(arg)] :
                arg \in { <<"/","d">>, BaseDir } }

----------------------------------------------------------------------------
(* State. *)

Conns == 1..MaxConns

\* A connection no client has opened yet.
NoConn ==
    [pc |-> "none",        \* where its task is
     stream |-> <<>>,      \* the chunks the socket will deliver, in order
     eof |-> TRUE,         \* after them the peer has closed its side (a read returns 0)
     vec |-> <<>>,         \* read_to_string's accumulator
     buf |-> <<>>,         \* the text read_to_string returned
     size |-> 0,           \* send_file's size
     res |-> TRUE,         \* save_file's res is Ok
     wire |-> <<>>,        \* the bytes written to the socket so far
     wfail |-> FALSE,      \* a write to the socket failed or was short
     seen_closed |-> {}]   \* the connections already ended when this one was accepted

Ended == {"closed", "panicked"}

Init ==
    /\ dir \in Directories
    /\ fs \in FileSystems
    /\ conns = [c \in Conns |-> NoConn]
    /\ backlog = <<>>
    /\ ctrl_c = FALSE
    /\ main = "running"

\* One connection, accepted, with any of the requests about to be read.
InitConn ==
    /\ dir \in Directories
    /\ fs \in FileSystems
    /\ \E r \in Requests :
          conns = [c \in Conns |->
                      IF c = 1 THEN [NoConn EXCEPT !.pc = "reading", !.stream = <<r>>]
                      ELSE NoConn]
    /\ backlog = <<>>
    /\ ctrl_c = FALSE
    /\ main = "running"

----------------------------------------------------------------------------
(* handle_connection, one action per await point. *)

\* The parsed request of a connection whose text has been read.
req_line(c) == header_line(conns[c].buf)
req_method(c) == HttpMethod_try_from(req_line(c).method)
req_path(c) == req_line(c).path
req_headers(c) == parse_headers(conns[c].buf)
req_body(c) == parse_body(conns[c].buf)
req_route(c) == route(req_method(c).method, req_path(c), req_headers(c), dir)

\* The connection after one write of buf with result w, continuing at pc.
written(conn, buf, w, pc) ==
    [conn EXCEPT !.wire = @ \o SubSeq(buf, 1, w.n),
                 !.wfail = @ \/ ~w.ok \/ w.n < Len(buf),
                 !.pc = pc]

\* ReadChunk had the loop ended on n == 0 only, as a read to the end does.
ReadChunk_to_end(c) ==
    /\ main = "running"
    /\ conns[c].pc = "reading"
    /\ conns[c].stream # <<>> \/ conns[c].eof
    /\ LET conn == conns[c]
           chunk == IF conn.stream = <<>> THEN <<>> ELSE Head(conn.stream)
           rest == IF conn.stream = <<>> THEN <<>> ELSE Tail(conn.stream)
           vec == conn.vec \o chunk
       IN  conns' = [conns EXCEPT ![c] =
              IF Len(chunk) = 0
              THEN IF valid_utf8(vec)
                   THEN [conn EXCEPT !.stream = rest, !.vec = vec, !.buf = vec,
                                     !.pc = "parsed"]
                   ELSE [conn EXCEPT !.stream = rest, !.vec = vec, !.pc = "closed"]
              ELSE [conn EXCEPT !.stream = rest, !.vec = vec]]
    /\ UNCHANGED <<dir, fs, backlog, ctrl_c, main>>

\* read_to_string: one stream.read.  The read returns the next chunk, or
\* n = 0 when the peer has closed after the last one, and is pending while
\* the peer is open and silent; a chunk shorter than the buffer ends the loop,
\* and the text is returned if it is valid UTF-8.
ReadChunk(c) ==
    /\ main = "running"
    /\ conns[c].pc = "reading"
    /\ conns[c].stream # <<>> \/ conns[c].eof
    /\ LET conn == conns[c]
           chunk == IF conn.stream = <<>> THEN <<>> ELSE Head(conn.stream)
           rest == IF conn.stream = <<>> THEN <<>> ELSE Tail(conn.stream)
           vec == conn.vec \o chunk
       IN  conns' = [conns EXCEPT ![c] =
              IF Len(chunk) < BUFFER_SIZE
              THEN IF valid_utf8(vec)
                   THEN [conn EXCEPT !.stream = rest, !.vec = vec, !.buf = vec,
                                     !.pc = "parsed"]
                   ELSE [conn EXCEPT !.stream = rest, !.vec = vec, !.pc = "closed"]
              ELSE [conn EXCEPT !.stream = rest, !.vec = vec]]
    /\ UNCHANGED <<dir, fs, backlog, ctrl_c, main>>

\* ReadError had handle_connection been awaited by main_loop with `?`.
ReadError_propagates(c) ==
    /\ main = "running"
    /\ conns[c].pc = "reading"
    /\ conns' = [conns EXCEPT ![c].pc = "closed"]
    /\ main' = "accept_error"
    /\ UNCHANGED <<dir, fs, backlog, ctrl_c>>

\* ReadError had handle_connection answered a failed read with a 500.
ReadError_answers(c) ==
    /\ main = "running"
    /\ conns[c].pc = "reading"
    /\ LET buf == write_to_buf(Response_from("InternalServerError")) IN
       \E w \in WriteResults(buf) :
          conns' = [conns EXCEPT ![c] = written(conns[c], buf, w, "closed")]
    /\ UNCHANGED <<dir, fs, backlog, ctrl_c, main>>

\* read_to_string: stream.read fails; handle_connection prints and returns.
ReadError(c) ==
    /\ main = "running"
    /\ conns[c].pc = "reading"
    /\ conns' = [conns EXCEPT ![c].pc = "closed"]
    /\ UNCHANGED <<dir, fs, backlog, ctrl_c, main>>

\* From the text to the first await of the chosen arm: the request line (400
\* and a panic without one), the method (a panic on an unknown token), the
\* headers and body, and the match on path.  An arm that answers from the
\* request alone writes its response here and the task ends.
Dispatch(c) ==
    /\ main = "running"
    /\ conns[c].pc = "parsed"
    /\ LET conn == conns[c] IN
       IF ~req_line(c).some
       THEN \E w \in WriteResults(write_to_buf(Response_from("BadRequest"))) :
              conns' = [conns EXCEPT ![c] =
                 written(conn, write_to_buf(Response_from("BadRequest")), w, "panicked")]
       ELSE IF ~req_method(c).ok
       THEN conns' = [conns EXCEPT ![c].pc = "panicked"]
       ELSE LET r == req_route(c) IN
            IF r.kind = "respond"
            THEN \E w \in WriteResults(write_to_buf(r.resp)) :
                   conns' = [conns EXCEPT ![c] =
                      written(conn, write_to_buf(r.resp), w, "closed")]
            ELSE IF r.kind = "none"
            THEN conns' = [conns EXCEPT ![c].pc = "closed"]
            ELSE conns' = [conns EXCEPT ![c].pc = r.kind]
    /\ UNCHANGED <<dir, fs, backlog, ctrl_c, main>>

\* send_file: File::open(file_path).await?
SendOpen(c) ==
    /\ main = "running"
    /\ conns[c].pc = "send_file"
    /\ conns' = [conns EXCEPT ![c].pc =
          IF File_open(absolute_path(req_path(c), dir)) THEN "send_metadata"
          ELSE "closed"]
    /\ UNCHANGED <<dir, fs, backlog, ctrl_c, main>>

\* send_file: file.metadata().await?.len()
SendMetadata(c) ==
    /\ main = "running"
    /\ conns[c].pc = "send_metadata"
    /\ conns' = [conns EXCEPT
          ![c].size = metadata_len(absolute_path(req_path(c), dir)),
          ![c].pc = "send_head"]
    /\ UNCHANGED <<dir, fs, backlog, ctrl_c, main>>

\* The head send_file writes before the file's bytes.
send_file_head(size) ==
    Response_new_without_body("Ok",
        << <<Content_Type, octet_stream>>, <<Content_Length, fmt_usize(size)>> >>)

\* SendHead without the `?`: the result of the write is ignored, as it is
\* in the arms of handle_connection.
SendHead_ignores_error(c) ==
    /\ main = "running"
    /\ conns[c].pc = "send_head"
    /\ LET buf == write_to_buf(send_file_head(conns[c].size)) IN
       \E w \in WriteResults(buf) :
          conns' = [conns EXCEPT ![c] = written(conns[c], buf, w, "send_copy")]
    /\ UNCHANGED <<dir, fs, backlog, ctrl_c, main>>

\* send_file: response.write_to(stream).await?
SendHead(c) ==
    /\ main = "running"
    /\ conns[c].pc = "send_head"
    /\ LET buf == write_to_buf(send_file_head(conns[c].size)) IN
       \E w \in WriteResults(buf) :
          conns' = [conns EXCEPT ![c] =
             written(conns[c], buf, w, IF w.ok THEN "send_copy" ELSE "closed")]
    /\ UNCHANGED <<dir, fs, backlog, ctrl_c, main>>

\* send_file: tokio::io::copy(&mut file, stream): the file's bytes as they are
\* now, written to the end; reading a directory fails; the socket may fail.
SendCopy(c) ==
    /\ main = "running"
    /\ conns[c].pc = "send_copy"
    /\ LET f == file_at(absolute_path(req_path(c), dir)) IN
       \/ conns' = [conns EXCEPT
             ![c].wire = IF f.kind = "file" THEN @ \o f.data ELSE @,
             ![c].pc = "closed"]
       \/ /\ f.kind = "file"
          /\ conns' = [conns EXCEPT ![c].wfail = TRUE, ![c].pc = "closed"]
    /\ UNCHANGED <<dir, fs, backlog, ctrl_c, main>>

\* save_file: File::open(file_path).await?
SaveOpen(c) ==
    /\ main = "running"
    /\ conns[c].pc = "save_file"
    /\ conns' = [conns EXCEPT ![c].pc =
          IF File_open(absolute_path(req_path(c), dir)) THEN "save_write"
          ELSE "closed"]
    /\ UNCHANGED <<dir, fs, backlog, ctrl_c, main>>

\* save_file: file.write(body.as_bytes()).await on the handle File::open gave,
\* which is read-only: no byte reaches the file.  The call reports Ok when the
\* bytes are only buffered and the failure is found later, Err otherwise.
SaveWrite(c) ==
    /\ main = "running"
    /\ conns[c].pc = "save_write"
    /\ \E ok \in BOOLEAN :
          conns' = [conns EXCEPT ![c].res = ok, ![c].pc = "save_respond"]
    /\ UNCHANGED <<dir, fs, backlog, ctrl_c, main>>

\* The status save_file answers with: map_or_else on res.
save_file_status(res) == IF res THEN "Ok" ELSE "InternalServerError"

\* save_file: Response::from(..).write_to(stream).await?
SaveRespond(c) ==
    /\ main = "running"
    /\ conns[c].pc = "save_respond"
    /\ LET buf == write_to_buf(Response_from(save_file_status(conns[c].res))) IN
       \E w \in WriteResults(buf) :
          conns' = [conns EXCEPT ![c] = written(conns[c], buf, w, "closed")]
    /\ UNCHANGED <<dir, fs, backlog, ctrl_c, main>>

\* Another process rewrites a regular file under the base directory.
ExternalModify ==
    /\ \E p \in DOMAIN fs, data \in FileContents :
          /\ fs[p].kind = "file"
          /\ fs[p].data # data
          /\ fs' = [fs EXCEPT ![p] = regular_file(data)]
    /\ UNCHANGED <<dir, conns, backlog, ctrl_c, main>>

----------------------------------------------------------------------------
(* main and main_loop. *)

\* A client connects: the kernel queues the connection on the listener.
Connect(c) ==
    /\ main = "running"
    /\ conns[c].pc = "none"
    /\ \A d \in Conns : d < c => conns[d].pc # "none"
    /\ \E r \in ServerRequests :
          conns' = [conns EXCEPT ![c] =
                      [NoConn EXCEPT !.pc = "pending", !.stream = <<r>>]]
    /\ backlog' = Append(backlog, c)
    /\ UNCHANGED <<dir, fs, ctrl_c, main>>

\* The ctrl-c signal arrives.
CtrlC ==
    /\ ~ctrl_c
    /\ ctrl_c' = TRUE
    /\ UNCHANGED <<dir, fs, conns, backlog, main>>

\* Accept had main_loop awaited handle_connection itself instead of spawning
\* it: the next accept waits for the task before it.
Accept_inline ==
    /\ main = "running"
    /\ backlog # <<>>
    /\ \A d \in Conns : conns[d].pc \in {"none", "pending"} \cup Ended
    /\ conns' = [conns EXCEPT ![Head(backlog)] =
          [@ EXCEPT !.pc = "reading",
                    !.seen_closed = {d \in Conns : conns[d].pc \in Ended}]]
    /\ backlog' = Tail(backlog)
    /\ UNCHANGED <<dir, fs, ctrl_c, main>>

\* main_loop: listener.accept() returns a connection and the task is spawned.
\* select! is biased and main_loop() is its first branch, so it is polled
\* first whether or not ctrl-c has fired.
Accept ==
    /\ main = "running"
    /\ backlog # <<>>
    /\ conns' = [conns EXCEPT ![Head(backlog)] =
          [@ EXCEPT !.pc = "reading",
                    !.seen_closed = {d \in Conns : conns[d].pc \in Ended}]]
    /\ backlog' = Tail(backlog)
    /\ UNCHANGED <<dir, fs, ctrl_c, main>>

\* main_loop: listener.accept().await? fails; main_loop returns the error and
\* select! completes with it.
AcceptError ==
    /\ main = "running"
    /\ main' = "accept_error"
    /\ UNCHANGED <<dir, fs, conns, backlog, ctrl_c>>

\* main: the second branch of select!, polled when main_loop() is pending
\* (no connection is ready to be accepted): ctrl_c() has completed.
Shutdown ==
    /\ main = "running"
    /\ backlog = <<>>
    /\ ctrl_c
    /\ main' = "shutdown"
    /\ UNCHANGED <<dir, fs, conns, backlog, ctrl_c>>

----------------------------------------------------------------------------
(* Specifications. *)

\* The steps of the task of connection c.  Each is guarded by main = "running":
\* when main returns the runtime is dropped and the tasks with it.
Handle(c) ==
    \/ ReadChunk(c)
    \/ ReadError(c)
    \/ Dispatch(c)
    \/ SendOpen(c)
    \/ SendMetadata(c)
    \/ SendHead(c)
    \/ SendCopy(c)
    \/ SaveOpen(c)
    \/ SaveWrite(c)
    \/ SaveRespond(c)

\* The server: clients connect, main accepts and spawns, ctrl-c may fire.
Next ==
    \/ \E c \in Conns : Connect(c)
    \/ CtrlC
    \/ Accept
    \/ AcceptError
    \/ Shutdown
    \/ \E c \in Conns : Handle(c)

Spec == Init /\ [][Next]_vars

\* One accepted connection with any request, beside another process that
\* rewrites files.
NextConn ==
    \/ \E c \in Conns : Handle(c)
    \/ ExternalModify

SpecConn == InitConn /\ [][NextConn]_vars

\* read_to_string alone, on a stream that delivers any chunks up to the
\* buffer's size and then is closed or stays open.
InitRead ==
    /\ dir = [some |-> FALSE, val |-> <<>>]
    /\ fs = (BaseDir :> [kind |-> "dir", data |-> <<>>, size |-> 4096])
    /\ \E s \in Streams, e \in BOOLEAN :
          conns = [c \in Conns |->
                      IF c = 1
                      THEN [NoConn EXCEPT !.pc = "reading", !.stream = s, !.eof = e]
                      ELSE NoConn]
    /\ backlog = <<>>
    /\ ctrl_c = FALSE
    /\ main = "running"

NextRead == \E c \in Conns : ReadChunk(c) \/ ReadError(c)

SpecRead == InitRead /\ [][NextRead]_vars

\* The server with a directory that holds the file f, and no signal: clients
\* connect, main accepts and spawns, the tasks run beside each other.
InitServe ==
    /\ Init
    /\ dir.some
    /\ file_at(FileF) = regular_file(<<"h","i">>)

NextServe ==
    \/ \E c \in Conns : Connect(c)
    \/ Accept
    \/ AcceptError
    \/ \E c \in Conns : Handle(c)

SpecServe == InitServe /\ [][NextServe]_vars

----------------------------------------------------------------------------
(* What the claims are stated with: the bytes a client finds on the wire. *)

IsPrefix(a, b) == Len(a) <= Len(b) /\ SubSeq(b, 1, Len(a)) = a

\* The value of a string of decimal digits, -1 when it is not one.
IsDigits(d) == d # <<>> /\ \A i \in 1..Len(d) : \E k \in 1..10 : Digits[k] = d[i]
RECURSIVE DigitsValue(_)
DigitsValue(d) ==
    IF d = <<>> THEN 0
    ELSE 10 * DigitsValue(SubSeq(d, 1, Len(d) - 1))
           + (CHOOSE k \in 0..9 : Digits[k + 1] = d[Len(d)])

\* "HTTP/1.1 200 OK\r\n\r\n"
Wire200 ==
    <<"H","T","T","P","/","1",".","1"," ","2","0","0"," ","O","K",CR,LF,CR,LF>>

\* "HTTP/1.1 201 Created\r\n\r\n"
Wire201 ==
    <<"H","T","T","P","/","1",".","1"," ","2","0","1"," ",
      "C","r","e","a","t","e","d",CR,LF,CR,LF>>

\* "HTTP/1.1 404 Not Found\r\n\r\n"
Wire404 ==
    <<"H","T","T","P","/","1",".","1"," ","4","0","4"," ",
      "N","o","t"," ","F","o","u","n","d",CR,LF,CR,LF>>

\* "HTTP/1.1 400 Bad Request\r\n\r\n"
Wire400 ==
    <<"H","T","T","P","/","1",".","1"," ","4","0","0"," ",
      "B","a","d"," ","R","e","q","u","e","s","t",CR,LF,CR,LF>>

\* "HTTP/1.1 500 Internal Server Error\r\n\r\n"
Wire500 ==
    <<"H","T","T","P","/","1",".","1"," ","5","0","0"," ",
      "I","n","t","e","r","n","a","l"," ","S","e","r","v","e","r"," ",
      "E","r","r","o","r",CR,LF,CR,LF>>

\* "HTTP/1.1 200 OK\r\nContent-Type: text/plain\r\nContent-Length: "
TextHead ==
    <<"H","T","T","P","/","1",".","1"," ","2","0","0"," ","O","K",CR,LF,
      "C","o","n","t","e","n","t","-","T","y","p","e",":"," ",
      "t","e","x","t","/","p","l","a","i","n",CR,LF,
      "C","o","n","t","e","n","t","-","L","e","n","g","t","h",":"," ">>

\* "HTTP/1.1 200 OK\r\nContent-Type: application/octet-stream\r\nContent-Length: "
OctetHead ==
    <<"H","T","T","P","/","1",".","1"," ","2","0","0"," ","O","K",CR,LF,
      "C","o","n","t","e","n","t","-","T","y","p","e",":"," ",
      "a","p","p","l","i","c","a","t","i","o","n","/",
      "o","c","t","e","t","-","s","t","r","e","a","m",CR,LF,
      "C","o","n","t","e","n","t","-","L","e","n","g","t","h",":"," ">>

\* w is head, then the decimal length of body, an empty line, and body.
IsFramed(w, head, body) ==
    LET dl == Len(w) - Len(head) - 4 - Len(body)
        d == SubSeq(w, Len(head) + 1, Len(head) + dl)
    IN  /\ dl >= 1
        /\ SubSeq(w, 1, Len(head)) = head
        /\ IsDigits(d)
        /\ (dl > 1 => d[1] # "0")
        /\ DigitsValue(d) = Len(body)
        /\ SubSeq(w, Len(head) + dl + 1, Len(head) + dl + 4) = CRLF \o CRLF
        /\ SubSeq(w, Len(head) + dl + 5, Len(w)) = body

\* The connection's one write took the whole of expected, or it failed or was
\* short and what is on the wire is the part of expected it took.
Answered(c, expected) ==
    IF conns[c].wfail
    THEN IsPrefix(conns[c].wire, expected) /\ conns[c].wire # expected
    ELSE conns[c].wire = expected

\* The same for a text/plain 200 response with the body given.
AnsweredText(c, body) ==
    IF conns[c].wfail
    THEN IsPrefix(conns[c].wire, TextHead)
    ELSE IsFramed(conns[c].wire, TextHead, body)

\* The task of c has ended normally, having parsed a request with a known method.
Served(c) ==
    /\ conns[c].pc = "closed"
    /\ conns[c].buf # <<>>
    /\ req_line(c).some
    /\ req_method(c).ok

\* The index of the empty line ending the head on the wire, 0 if there is none.
HeadEnd(w) ==
    IF \E i \in 1..Len(w) : i + 3 <= Len(w) /\ SubSeq(w, i, i + 3) = CRLF \o CRLF
    THEN CHOOSE i \in 1..Len(w) :
            /\ i + 3 <= Len(w) /\ SubSeq(w, i, i + 3) = CRLF \o CRLF
            /\ \A j \in 1..(i-1) : SubSeq(w, j, j + 3) # CRLF \o CRLF
    ELSE 0

\* The Content-Length values in the head of w, and the body bytes after it.
WireLengths(w) ==
    LET hl == Tail(lines(SubSeq(w, 1, HeadEnd(w) + 1))) IN
    { DigitsValue(split_header(hl[i]).value) :
        i \in { j \in 1..Len(hl) : split_header(hl[j]).key = Content_Length } }
WireBodyLen(w) == Len(w) - (HeadEnd(w) + 3)

----------------------------------------------------------------------------
(* The claims. *)

EchoPrefix == <<"/","e","c","h","o","/">>
FilesPrefix == <<"/","f","i","l","e","s","/">>
UserAgentPath == <<"/","u","s","e","r","-","a","g","e","n","t">>
EAcute == <<"xC3","xA9">>

\* C1: a request with a recognised method whose path is "/echo/" followed by m
\* is answered 200 with Content-Type: text/plain, then Content-Length: the
\* byte length of m, and the body m unaltered; a failed or short socket write
\* leaves only a part of that head on the wire.
C1_EchoRoundTrip ==
    \A c \in Conns :
        (Served(c) /\ IsPrefix(EchoPrefix, req_path(c)))
            => AnsweredText(c, SubSeq(req_path(c), Len(EchoPrefix) + 1, Len(req_path(c))))

\* A POST to "/echo/" followed by the two bytes of U+00E9 has been answered in full.
C1_Witness ==
    \E c \in Conns :
        /\ Served(c) /\ ~conns[c].wfail
        /\ req_method(c).method = "POST"
        /\ req_path(c) = EchoPrefix \o EAcute
        /\ IsFramed(conns[c].wire, TextHead, EAcute)

\* C2: with a base directory, a POST to /files/{name} with body b is answered
\* 201, and a GET to /files/{name} accepted after that POST has ended is
\* answered 200 with Content-Length: the length of b and the body b.
C2_FileRoundTrip ==
    \A c1 \in Conns :
        (Served(c1) /\ ~conns[c1].wfail /\ dir.some
            /\ req_method(c1).method = "POST" /\ IsPrefix(FilesPrefix, req_path(c1)))
        => /\ conns[c1].wire = Wire201
           /\ \A c2 \in Conns :
                (Served(c2) /\ ~conns[c2].wfail
                    /\ c1 \in conns[c2].seen_closed
                    /\ req_method(c2).method = "GET"
                    /\ req_path(c2) = req_path(c1))
                => IsFramed(conns[c2].wire, OctetHead, req_body(c1))

\* C3: with a base directory, a POST or PUT to /files/{name} is answered 201
\* with an empty body and the file then holds the request body, or is answered
\* 500 with an empty body; one of the two is always written.
C3_SaveFileAnswers ==
    \A c \in Conns :
        (Served(c) /\ ~conns[c].wfail /\ dir.some
            /\ req_method(c).method \in {"POST", "PUT"}
            /\ IsPrefix(FilesPrefix, req_path(c)))
        => \/ /\ conns[c].wire = Wire201
              /\ LET f == file_at(dir.val \o SubSeq(req_path(c), Len(FilesPrefix) + 1,
                                                    Len(req_path(c))))
                 IN  f.kind = "file" /\ f.data = req_body(c)
           \/ conns[c].wire = Wire500

\* C4: with a base directory, a GET to /files/{name} whose target does not
\* exist or is a directory is answered 404: the connection does not end with
\* a 200 status line or with nothing on the wire.
C4_MissingFile404 ==
    \A c \in Conns :
        (Served(c) /\ ~conns[c].wfail /\ dir.some
            /\ req_method(c).method = "GET"
            /\ IsPrefix(FilesPrefix, req_path(c))
            /\ file_at(dir.val \o SubSeq(req_path(c), Len(FilesPrefix) + 1,
                                         Len(req_path(c)))).kind \in {"absent", "dir"})
        => conns[c].wire = Wire404

\* The positions of a task inside send_file and save_file.
InFileHandler ==
    {"send_file", "send_metadata", "send_head", "send_copy",
     "save_file", "save_write", "save_respond"}

\* C5: with no base directory, a request to a path starting with "/files/"
\* (GET, POST or any other recognised method) is answered 404 with an empty
\* body, and no task ever enters send_file or save_file.
C5_NoDirectory404 ==
    ~dir.some =>
        \A c \in Conns :
            /\ conns[c].pc \notin InFileHandler
            /\ (Served(c) /\ IsPrefix(FilesPrefix, req_path(c))) => Answered(c, Wire404)

\* With no base directory, a POST to /files/f has been answered 404.
C5_Witness ==
    \E c \in Conns :
        /\ ~dir.some /\ Served(c)
        /\ req_method(c).method = "POST"
        /\ req_path(c) = FilesPrefix \o <<"f">>
        /\ conns[c].wire = Wire404

\* The request is one of those sent with the header lines hs and path "/user-agent".
IsUserAgentRequest(c, hs) ==
    \E m \in MethodTokens, v \in Versions, b \in Bodies :
        conns[c].buf = request_text(m, UserAgentPath, v, hs, b)

\* C6: a request to "/user-agent" is answered 200 with Content-Type:
\* text/plain, Content-Length: the byte length of the value of the first header
\* named exactly User-Agent, and that value as the body; it is answered 404
\* when no header has that name.  The value is what follows the colon without
\* its leading whitespace: "User-Agent:  <U+00E9>" gives the two bytes of
\* U+00E9; of two User-Agent headers the first is taken; a header named
\* user-agent or "User-Agent " does not count, nor does a User-Agent line in
\* the body.
C6_UserAgent ==
    \A c \in Conns :
        (Served(c) /\ req_path(c) = UserAgentPath)
        => /\ LET hs == req_headers(c)
                  named == {i \in 1..Len(hs) : hs[i][1] = User_Agent}
              IN  IF named # {}
                  THEN AnsweredText(c, hs[CHOOSE i \in named : \A j \in named : i <= j][2])
                  ELSE Answered(c, Wire404)
           /\ IsUserAgentRequest(c, << <<"H","o","s","t",":"," ","h">>,
                                       User_Agent \o <<":"," "," ">> \o EAcute >>)
                => AnsweredText(c, EAcute)
           /\ IsUserAgentRequest(c, << User_Agent \o <<":","a">>,
                                       User_Agent \o <<":"," ","b">> >>)
                => AnsweredText(c, <<"a">>)
           /\ IsUserAgentRequest(c, << <<"u","s","e","r","-","a","g","e","n","t",
                                         ":"," ","a">> >>)
                => Answered(c, Wire404)
           /\ IsUserAgentRequest(c, << User_Agent, User_Agent \o <<" ",":"," ","a">> >>)
                => Answered(c, Wire404)
           /\ IsUserAgentRequest(c, <<>>)
                => Answered(c, Wire404)

\* A request to "/user-agent" with "User-Agent:  <U+00E9>" has been answered in full.
C6_Witness ==
    \E c \in Conns :
        /\ Served(c) /\ ~conns[c].wfail
        /\ req_path(c) = UserAgentPath
        /\ IsUserAgentRequest(c, << <<"H","o","s","t",":"," ","h">>,
                                    User_Agent \o <<":"," "," ">> \o EAcute >>)
        /\ IsFramed(conns[c].wire, TextHead, EAcute)

\* C7: a request to "/" with any recognised method is answered with exactly
\* "HTTP/1.1 200 OK", no header and no body, whatever its version, headers
\* and body.
C7_Root200 ==
    \A c \in Conns :
        (Served(c) /\ req_path(c) = <<"/">>) => Answered(c, Wire200)

\* A PUT to "/" with version HTTP/1.0, headers and a body has been answered in full.
C7_Witness ==
    \E c \in Conns :
        /\ Served(c)
        /\ req_method(c).method = "PUT"
        /\ req_path(c) = <<"/">>
        /\ req_line(c).version # HTTP_1_1
        /\ req_headers(c) # <<>>
        /\ req_body(c) # <<>>
        /\ conns[c].wire = Wire200

\* C8: a request with a recognised method to a path that is not "/", not
\* "/user-agent" and starts with neither "/echo/" nor "/files/" is answered
\* 404 with no header and no body.
C8_Unmatched404 ==
    \A c \in Conns :
        (Served(c)
            /\ req_path(c) # <<"/">>
            /\ req_path(c) # UserAgentPath
            /\ ~IsPrefix(EchoPrefix, req_path(c))
            /\ ~IsPrefix(FilesPrefix, req_path(c)))
        => Answered(c, Wire404)

\* A HEAD request to "/echo", which lacks the final "/", has been answered 404.
C8_Witness ==
    \E c \in Conns :
        /\ Served(c)
        /\ req_method(c).method = "HEAD"
        /\ req_path(c) = <<"/","e","c","h","o">>
        /\ conns[c].wire = Wire404

\* The request of c is a GET that send_file serves from a directory (the
\* case of C4).
ServesDirectory(c) ==
    /\ dir.some
    /\ req_method(c).method = "GET"
    /\ IsPrefix(FilesPrefix, req_path(c))
    /\ file_at(dir.val \o SubSeq(req_path(c), Len(FilesPrefix) + 1,
                                 Len(req_path(c)))).kind = "dir"

\* C9: a response whose head carries a Content-Length header is followed by
\* exactly that many body bytes: for the echo and user-agent responses and for
\* send_file on a regular file, whose size is read before the head is written
\* and whose bytes are copied after it, while another process may rewrite the
\* file.  (Socket failures and the directory target of C4 are left aside.)
C9_ContentLengthExact ==
    \A c \in Conns :
        (Served(c) /\ ~conns[c].wfail /\ ~ServesDirectory(c)
            /\ HeadEnd(conns[c].wire) # 0)
        => \A n \in WireLengths(conns[c].wire) : n = WireBodyLen(conns[c].wire)

\* C10: when ctrl-c has fired, the shutdown branch is taken first: no step of
\* a running server takes a connection off the listener once ctrl_c holds.
C10_ShutdownFirst ==
    [][(ctrl_c /\ main = "running") => Len(backlog') >= Len(backlog)]_vars

----------------------------------------------------------------------------
(* The accept loop and the connections beside each other. *)

\* C11: a failure of accept, of a read or of a write never ends the server:
\* the accept loop stops only when the shutdown signal has fired.
C11_TransportErrorsNotFatal ==
    main = "running" \/ (main = "shutdown" /\ ctrl_c)

\* The task of c ends at this step.
TaskEnds(c) == conns[c].pc \notin Ended /\ conns'[c].pc \in Ended

\* C12: an error inside one connection's task is confined to it.  A step in
\* which the task of a connection ends (by a read error, invalid UTF-8, the
\* panic on a malformed request line or an unknown method, a file or write
\* failure, or normally) leaves every other connection as it was, the
\* listener's queue and the files as they were, and the accept loop running.
C12_ErrorsConfined ==
    [][\A c \in Conns :
          TaskEnds(c) =>
             /\ main' = main
             /\ backlog' = backlog
             /\ fs' = fs
             /\ \A d \in Conns \ {c} : conns'[d] = conns[d]]_vars

\* A connection whose task panicked had ended when a later connection was
\* accepted, and that one got its whole /echo/x response.
C12_Witness ==
    \E c \in Conns, d \in Conns :
        /\ conns[c].pc = "panicked"
        /\ c \in conns[d].seen_closed
        /\ conns[d].pc = "closed"
        /\ req_path(d) = EchoPrefix \o <<"x">>
        /\ ~conns[d].wfail
        /\ AnsweredText(d, <<"x">>)
        /\ main = "running"

\* The task of c is suspended in its socket read, a file operation or a write.
Suspended(c) ==
    conns[c].pc \in {"reading", "send_file", "send_metadata", "send_head",
                     "send_copy", "save_file", "save_write", "save_respond"}

\* The request of c is GET /echo/x.
IsEchoX(c) ==
    conns[c].stream = <<>> /\ conns[c].buf =
        <<"G","E","T"," ">> \o EchoPrefix \o <<"x"," ">> \o HTTP_1_1 \o CRLF \o CRLF

\* C13: connections are handled independently.  Whatever the other tasks are
\* suspended in, a running accept loop can take the next queued connection
\* and a task whose request has arrived can read it; and a GET /echo/x that
\* has ended carries the response it gets when served alone: 200, text/plain,
\* Content-Length: 1, body x.
C13_Independent ==
    /\ (main = "running" /\ backlog # <<>>) => ENABLED Accept
    /\ \A d \in Conns :
          /\ (main = "running" /\ conns[d].pc = "reading") => ENABLED ReadChunk(d)
          /\ (IsEchoX(d) /\ conns[d].pc = "closed") => AnsweredText(d, <<"x">>)

\* A file GET is suspended between its head and the file's bytes while a
\* connection accepted after it has been answered /echo/x in full.
C13_Witness ==
    \E c \in Conns, d \in Conns :
        /\ c < d
        /\ conns[c].pc = "send_copy"
        /\ IsEchoX(d)
        /\ conns[d].pc = "closed"
        /\ c \notin conns[d].seen_closed
        /\ ~conns[d].wfail
        /\ AnsweredText(d, <<"x">>)

----------------------------------------------------------------------------
(* One connection: the order of its steps and what it writes. *)

\* The file the request path of c names under the directory.
FileTarget(c) ==
    file_at(dir.val \o SubSeq(req_path(c), Len(FilesPrefix) + 1, Len(req_path(c))))

\* The request of c is a file GET or POST whose target does not exist, so
\* that opening it fails.
OpenFails(c) ==
    /\ dir.some
    /\ IsPrefix(FilesPrefix, req_path(c))
    /\ req_method(c).method \in {"GET", "POST"}
    /\ FileTarget(c).kind = "absent"

\* C14: a connection whose request was read and parsed (any recognised method,
\* any path, directory configured or not) and whose I/O did not fail is not
\* closed with zero response bytes.
C14_ResponseBeforeClose ==
    \A c \in Conns :
        (Served(c) /\ ~conns[c].wfail /\ ~OpenFails(c)) => conns[c].wire # <<>>

\* The steps of a connection before its request has been read and parsed.
BeforeRouting == {"none", "pending", "reading", "parsed"}

\* C15 as stated: a connection has response bytes on the wire only when its
\* request has been read, parsed (request line and method) and routed.
C15_NothingBeforeRouted ==
    \A c \in Conns :
        conns[c].wire # <<>> =>
            /\ conns[c].pc \notin BeforeRouting
            /\ req_line(c).some
            /\ req_method(c).ok

\* The edges between the steps of a connection: accepted and reading, parsed,
\* the awaits of the chosen file handler in their order, and from every step
\* the end of the task.
StepEdges ==
    { <<"none", "pending">>, <<"pending", "reading">>, <<"reading", "parsed">>,
      <<"parsed", "send_file">>, <<"send_file", "send_metadata">>,
      <<"send_metadata", "send_head">>, <<"send_head", "send_copy">>,
      <<"parsed", "save_file">>, <<"save_file", "save_write">>,
      <<"save_write", "save_respond">> }

\* The steps at which a response is written.
Responding == {"parsed", "send_head", "send_copy", "save_respond"}

\* C15 amended: the steps of a connection follow the order read, parse,
\* route, respond, close, with an edge from every step to the end of the task,
\* and bytes are written only from a responding step, after the whole read.
\* The bytes on the wire are those of a routed request, or, when the request
\* line could not be parsed, those of the 400 written before the task panics:
\* that response is written without the request parsed or routed.
C15_StepOrder ==
    /\ [][\A c \in Conns :
             /\ conns'[c].pc # conns[c].pc =>
                   \/ <<conns[c].pc, conns'[c].pc>> \in StepEdges
                   \/ conns[c].pc \notin Ended /\ conns'[c].pc \in Ended
             /\ conns'[c].wire # conns[c].wire => conns[c].pc \in Responding]_vars
    /\ [](\A c \in Conns :
             conns[c].wire # <<>> =>
                /\ conns[c].pc \notin BeforeRouting
                /\ IF req_line(c).some
                   THEN req_method(c).ok
                   ELSE conns[c].pc = "panicked" /\ IsPrefix(conns[c].wire, Wire400))

\* A well-formed request answered in full by the file handler, whose steps
\* all lie between the parse and the close.
C15_Witness ==
    \E c \in Conns :
        /\ conns[c].pc = "closed"
        /\ req_line(c).some
        /\ req_method(c).method = "GET"
        /\ ~conns[c].wfail
        /\ conns[c].size > 0
        /\ IsFramed(conns[c].wire, OctetHead, FileTarget(c).data)

\* The number of space positions of a line.
SpaceCount(line) == Cardinality({i \in 1..Len(line) : line[i] = " "})

\* The text has no first line, or one with fewer than two space positions.
Malformed(buf) == lines(buf) = <<>> \/ SpaceCount(lines(buf)[1]) < 2

\* C16: a request whose first line has fewer than two distinct space
\* positions fails parsing.  Once it is read, its task attempts the 400 Bad
\* Request response with an empty body and panics: the wire holds exactly
\* "HTTP/1.1 400 Bad Request\r\n\r\n" (a proper prefix when the write fails
\* or is short), and the task is never in a route or file handler.  (A task
\* that is closed with no text is one whose read failed; it wrote nothing.)
C16_MalformedRequestLine ==
    \A c \in Conns :
        Malformed(conns[c].buf) =>
            \/ conns[c].pc \in BeforeRouting /\ conns[c].wire = <<>>
            \/ conns[c].pc = "panicked" /\ Answered(c, Wire400)
            \/ conns[c].pc = "closed" /\ conns[c].buf = <<>> /\ conns[c].wire = <<>>

\* The request "GET /" (one space) got the whole 400 and its task panicked.
C16_Witness ==
    \E c \in Conns :
        /\ conns[c].buf = <<"G","E","T"," ","/">> \o CRLF \o CRLF
        /\ conns[c].pc = "panicked"
        /\ conns[c].wire = Wire400

\* The nine method names, spelled in upper case.
MethodName ==
    [GET |-> <<"G","E","T">>, POST |-> <<"P","O","S","T">>, PUT |-> <<"P","U","T">>,
     DELETE |-> <<"D","E","L","E","T","E">>, PATCH |-> <<"P","A","T","C","H">>,
     HEAD |-> <<"H","E","A","D">>, OPTIONS |-> <<"O","P","T","I","O","N","S">>,
     TRACE |-> <<"T","R","A","C","E">>, CONNECT |-> <<"C","O","N","N","E","C","T">>]

\* tok is name with any of its letters in lower case.
CaseVariant(tok, name) ==
    /\ Len(tok) = Len(name)
    /\ \A i \in 1..Len(tok) :
          \/ tok[i] = name[i]
          \/ \E k \in 1..26 : UpperCase[k] = name[i] /\ LowerCase[k] = tok[i]

\* C17: the method token is matched without regard to case against the nine
\* method names: a token that is a case variant of a name parses as that
\* method, the one its upper-case form parses as, and its task does not panic;
\* for any other token the task panics when the method is parsed, with
\* nothing written and no route or file handler entered, whatever the path.
C17_MethodToken ==
    \A c \in Conns :
        req_line(c).some =>
            LET tok == req_line(c).method IN
            IF \E m \in DOMAIN MethodName : CaseVariant(tok, MethodName[m])
            THEN /\ \A m \in DOMAIN MethodName :
                       CaseVariant(tok, MethodName[m]) =>
                          /\ req_method(c) = [ok |-> TRUE, method |-> m]
                          /\ HttpMethod_try_from(MethodName[m]) = req_method(c)
                 /\ conns[c].pc # "panicked"
            ELSE /\ conns[c].pc \in {"parsed", "panicked"}
                 /\ conns[c].wire = <<>>

\* The request "CoNNECT / HTTP/1.1" was answered 200 as CONNECT / is.
C17_Witness ==
    \E c \in Conns :
        /\ req_line(c).some
        /\ req_line(c).method = <<"C","o","N","N","E","C","T">>
        /\ req_path(c) = <<"/">>
        /\ conns[c].pc = "closed"
        /\ conns[c].wire = Wire200

----------------------------------------------------------------------------
(* The frame reader. *)

\* What the next read of c returns: the next chunk, nothing at the end.
NextChunk(c) == IF conns[c].stream = <<>> THEN <<>> ELSE Head(conns[c].stream)

\* C18: the frame reader stops exactly at the first read that returns fewer
\* than 1024 bytes, zero included.  While it reads, every chunk so far was a
\* full one.  A step of the reader is a failed read, which ends it with
\* nothing taken, or a read of the next chunk of a stream that has one or is
\* closed: the chunk is appended to what was read and, when it is shorter than
\* 1024 bytes, the reader returns at this step (the concatenation of all the
\* chunks, if it is valid UTF-8), and when it is 1024 bytes the reader reads
\* again.  So it does not return on a stream that is open and has delivered
\* only full chunks.
C18_FrameReader ==
    /\ [](\A c \in Conns :
             conns[c].pc = "reading" => Len(conns[c].vec) % 1024 = 0)
    /\ [][\A c \in Conns :
             (conns[c].pc = "reading" /\ conns'[c] # conns[c]) =>
                \/ conns'[c] = [conns[c] EXCEPT !.pc = "closed"]
                \/ /\ conns[c].stream # <<>> \/ conns[c].eof
                   /\ conns'[c].vec = conns[c].vec \o NextChunk(c)
                   /\ conns[c].stream # <<>> => conns'[c].stream = Tail(conns[c].stream)
                   /\ IF Len(NextChunk(c)) < 1024
                      THEN \/ /\ conns'[c].pc = "parsed"
                              /\ conns'[c].buf = conns[c].vec \o NextChunk(c)
                           \/ /\ conns'[c].pc = "closed"
                              /\ \E i \in 1..Len(conns'[c].vec) :
                                    conns'[c].vec[i] = "xFF"
                      ELSE conns'[c].pc = "reading"]_vars

\* After a full chunk and a chunk of one byte the reader has returned their
\* 1025 bytes in order, with a further chunk of the stream left unread.
C18_Witness ==
    \E c \in Conns :
        /\ conns[c].pc = "parsed"
        /\ Len(conns[c].buf) = 1025
        /\ conns[c].buf[1] = "a"
        /\ conns[c].buf[1024] = "a"
        /\ conns[c].buf[1025] = "c"
        /\ conns[c].stream # <<>>

----------------------------------------------------------------------------
(* The parsed headers. *)

\* The lines of the text after the first one and before the first empty one.
HeaderSection(buf) ==
    LET rest == Tail(lines(buf))
        ends == {i \in 1..Len(rest) : rest[i] = <<>>}
        k == IF ends = {} THEN Len(rest)
             ELSE (CHOOSE i \in ends : \A j \in ends : i <= j) - 1
    IN  SubSeq(rest, 1, k)

\* The index of the first colon of a line, 0 without one.
Colon(line) ==
    IF \E i \in 1..Len(line) : line[i] = ":"
    THEN CHOOSE i \in 1..Len(line) : line[i] = ":" /\ \A j \in 1..(i - 1) : line[j] # ":"
    ELSE 0

\* The values the lines of a header section give for a name, in their order:
\* what follows the first colon of each line that starts with the name and a
\* colon, without its leading white space.
RECURSIVE ValuesSent(_, _)
ValuesSent(section, name) ==
    IF section = <<>> THEN <<>>
    ELSE LET line == Head(section)
             i == Colon(line)
         IN  (IF i # 0 /\ SubSeq(line, 1, i - 1) = name
              THEN <<trim_start(SubSeq(line, i + 1, Len(line)))>> ELSE <<>>)
                \o ValuesSent(Tail(section), name)

\* The values the parsed headers hold under a name, in their order.
RECURSIVE ValuesUnder(_, _)
ValuesUnder(headers, name) ==
    IF headers = <<>> THEN <<>>
    ELSE (IF Head(headers)[1] = name THEN <<Head(headers)[2]>> ELSE <<>>)
            \o ValuesUnder(Tail(headers), name)

\* The header names of a section.
NamesSent(section) ==
    {SubSeq(section[i], 1, Colon(section[i]) - 1) :
        i \in {j \in 1..Len(section) : Colon(section[j]) # 0}}

\* C19: the parsed headers hold, under every name sent before the first empty
\* line, the value of each of its occurrences in the order sent: none is
\* dropped and none overwritten, and there is one parsed header for each line
\* with a colon, the lines without one being skipped without ending the
\* section.  For the section "A: 1", "x", "B: 2", "A:3", "A: 1" the parsed
\* headers are (A,1), (B,2), (A,3), (A,1).
C19_RepeatedHeaders ==
    \A c \in Conns :
        req_line(c).some =>
            LET section == HeaderSection(conns[c].buf) IN
            /\ \A name \in NamesSent(section) :
                  ValuesUnder(req_headers(c), name) = ValuesSent(section, name)
            /\ Len(req_headers(c))
                  = Cardinality({i \in 1..Len(section) : Colon(section[i]) # 0})
            /\ section = RepeatedHeaders =>
                  req_headers(c) = << <<<<"A">>, <<"1">>>>, <<<<"B">>, <<"2">>>>,
                                      <<<<"A">>, <<"3">>>>, <<<<"A">>, <<"1">>>> >>

\* The request with that section has been parsed and answered 404, having
\* no User-Agent header among its four.
C19_Witness ==
    \E c \in Conns :
        /\ req_line(c).some
        /\ HeaderSection(conns[c].buf) = RepeatedHeaders
        /\ Len(req_headers(c)) = 4
        /\ ValuesUnder(req_headers(c), <<"A">>) = << <<"1">>, <<"3">>, <<"1">> >>
        /\ conns[c].pc = "closed"
        /\ conns[c].wire = Wire404

----------------------------------------------------------------------------
(* The response heads of one connection. *)

\* "HTTP/1.1 ", with which every status line starts.
StatusLineStart == <<"H","T","T","P","/","1",".","1"," ">>

\* The number of status lines that start on the wire.
HeadCount(w) ==
    Cardinality({i \in 1..Len(w) :
                    /\ i + Len(StatusLineStart) - 1 <= Len(w)
                    /\ SubSeq(w, i, i + Len(StatusLineStart) - 1) = StatusLineStart})

\* C20: on every path of a connection's handling at most one response head is
\* written: the wire never holds a second status line, and what it holds
\* starts with the head.  In send_file the file's bytes are copied only after
\* a write of the head that did not fail: the copy is never reached with
\* nothing written, so a failed head write is followed by no body byte.
C20_OneHead ==
    \A c \in Conns :
        /\ HeadCount(conns[c].wire) <= 1
        /\ conns[c].wire # <<>> => conns[c].wire[1] = "H"
        /\ conns[c].pc = "send_copy" => conns[c].wire # <<>>

\* send_file read the size of an existing file, the write of its head failed,
\* and the task ended with no byte on the wire.
C20_Witness ==
    \E c \in Conns :
        /\ req_line(c).some
        /\ req_method(c).method = "GET"
        /\ IsPrefix(FilesPrefix, req_path(c))
        /\ conns[c].size > 0
        /\ conns[c].pc = "closed"
        /\ conns[c].wfail
        /\ conns[c].wire = <<>>

====
